---- MODULE Spec2Model ----
(***************************************************************************)
(* A model of import_snapshot.py: the helper that imports a snapshot of    *)
(* upstream Wayland protocol sources into a vendored directory.            *)
(*                                                                         *)
(* Text is modelled as a sequence of symbols.  A symbol is one character,  *)
(* except that a word the code only ever treats as a whole ("tree",        *)
(* 'version: "', "last_upgrade_date {") is one symbol.  None of these      *)
(* words contains a character the code splits or matches on, so splitting  *)
(* and matching on symbols is splitting and matching on characters.        *)
(*                                                                         *)
(* Python's None is the empty sequence <<>> and a value x is <<x>>.        *)
(***************************************************************************)
EXTENDS Integers, Sequences, FiniteSets, TLC

VARIABLES
    \* ---- SpecUrl: AndroidMetadata._read_raw_git_urls on its own
    u_urls,      \* the matches of URL_PATTERN in the record, in record order
    u_res,       \* the outcome of _read_raw_git_urls
    u_pc,        \* "init" | "read"
    \* ---- SpecApply: the removal step and the copy step of main on their own
    a_old,       \* import_old_files
    a_new,       \* import_new_files
    a_dir0,      \* the vendored directory before the first application
    a_dir,       \* the vendored directory: path -> "absent" or what the file holds
    a_dir1,      \* the vendored directory after the first application
    a_unlinked,  \* the paths the last removal step passed to unlink
    a_head,      \* the vendored directory as of the local HEAD commit
    a_commits,   \* the number of commits created
    a_pc,        \* "init" | "removed" | "copied" | "committed", then
                 \* "removed2" | "copied2" | "committed2", or "failed"
    \* ---- SpecMeta: AndroidMetadata.update_version_and_import_date on its own
    m_rec,       \* the fields the record file was written from
    m_version,   \* the version argument
    m_content,   \* self._content, the text of the record file
    m_pc,        \* "init" | "updated"
    \* ---- Spec: runs of main
    pc,               \* the step main is at, "done" or "failed"
    local_tree,       \* the local working tree when the run starts: whether it
                      \* has unstaged modifications, and staged changes
    arg_version,      \* args.version
    remove_old_files, \* args.remove_old_files
    force_clean,      \* args.force_clean
    record_urls,      \* the matches of URL_PATTERN in the METADATA file
    record_text,      \* the text of the METADATA file, its url blocks apart
    meta,             \* the AndroidMetadata object: _url and _paths
    upstream_main,    \* the commit the upstream branch main points at
    scratch,          \* .import/<group>/<version>: the commit checked out there
    import_new,       \* import_new_hash, import_new_ref_name, import_new_files
    import_old,       \* meta.current_version as read, import_old_hash, import_old_files
    target_dir,       \* the vendored directory: path -> "absent" or what the file holds
    staged,           \* the paths staged by target_git.add in this run
    commits,          \* the commits created, each with the version and hash it names
    run               \* bookkeeping of the run: its number, the state it started
                      \* from, clones started, record writes, the failing step

uvars == <<u_urls, u_res, u_pc>>

rvars == <<pc, local_tree, arg_version, remove_old_files, force_clean, record_urls,
           record_text, meta, upstream_main, scratch, import_new, import_old, target_dir,
           staged, commits, run>>

mvars == <<m_rec, m_version, m_content, m_pc>>

avars == <<a_old, a_new, a_dir0, a_dir, a_dir1, a_unlinked, a_head, a_commits, a_pc>>

vars == <<uvars, avars, mvars, rvars>>

----------------------------------------------------------------------------
(* Bounds of the model. *)

\* the most pieces a URL of SpecUrl is built from
MaxPieces == 5

\* the most fields and blanks a record of SpecMeta is written from
MaxItems == 3

\* the most runs of main in a row
MaxRuns == 2

----------------------------------------------------------------------------
(* Python str operations on sequences of symbols. *)

None == <<>>

Some(x) == <<x>>

\* s[i:] for a 1-based start i
DropTo(s, i) == SubSeq(s, i, Len(s))

\* sep occurs in s at position i
OccursAt(s, sep, i) ==
    /\ i >= 1
    /\ i + Len(sep) - 1 <= Len(s)
    /\ SubSeq(s, i, i + Len(sep) - 1) = sep

\* str.find: the least position at which sep occurs in s, 0 when there is none
StrFind(s, sep) ==
    LET hits == {i \in 1..Len(s) : OccursAt(s, sep, i)}
    IN  IF hits = {} THEN 0 ELSE CHOOSE i \in hits : \A j \in hits : i <= j

\* sep in s
StrContains(s, sep) == StrFind(s, sep) # 0

RECURSIVE StrSplit(_, _)
\* s.split(sep): every non-overlapping occurrence, left to right
StrSplit(s, sep) ==
    LET k == StrFind(s, sep)
    IN  IF k = 0
        THEN <<s>>
        ELSE <<SubSeq(s, 1, k - 1)>> \o StrSplit(DropTo(s, k + Len(sep)), sep)

\* s.split(sep, 1): the first occurrence only
StrSplit1(s, sep) ==
    LET k == StrFind(s, sep)
    IN  IF k = 0
        THEN <<s>>
        ELSE <<SubSeq(s, 1, k - 1), DropTo(s, k + Len(sep))>>

RECURSIVE Concat(_)
\* ''.join(parts)
Concat(parts) ==
    IF parts = <<>> THEN <<>> ELSE Head(parts) \o Concat(Tail(parts))

----------------------------------------------------------------------------
(* AndroidMetadata._read_raw_git_urls *)

SLASH == <<"/">>

\* '/-/tree/'
TREE_DELIM == <<"/", "-", "/", "tree", "/">>

\* '/+/'
PLUS_DELIM == <<"/", "+", "/">>

\* base_url, path = url.split(delim); _, path = path.split('/', 1)
\* Either unpacking raises ValueError unless the split has exactly two parts.
SplitAtDelim(url, delim) ==
    LET outer == StrSplit(url, delim)
    IN  IF Len(outer) # 2
        THEN [ok |-> FALSE, base_url |-> url, path |-> None]
        ELSE LET inner == StrSplit1(outer[2], SLASH)
             IN  IF Len(inner) # 2
                 THEN [ok |-> FALSE, base_url |-> outer[1], path |-> None]
                 ELSE [ok |-> TRUE, base_url |-> outer[1], path |-> Some(inner[2])]

\* The body of the loop up to the consistency test, for one URL entry:
\* base_url and path, or ok = FALSE when an unpacking raises.
split_url(url) ==
    IF StrContains(url, TREE_DELIM) THEN SplitAtDelim(url, TREE_DELIM)
    ELSE IF StrContains(url, PLUS_DELIM) THEN SplitAtDelim(url, PLUS_DELIM)
    ELSE [ok |-> TRUE, base_url |-> url, path |-> None]

\* Python truthiness of an Optional[str]: not None and not ''
Truthy(opt) == opt # None /\ opt[1] # <<>>

\* One iteration of the loop over the URL entries.  st.status is "ok" while
\* the loop runs, "exit" after sys.exit, "raise" after an uncaught ValueError.
read_url_step(st, url) ==
    LET sp == split_url(url)
    IN  IF st.status # "ok" THEN st
        ELSE IF ~sp.ok THEN [st EXCEPT !.status = "raise"]
        ELSE IF Truthy(st.url) /\ st.url[1] # sp.base_url
             THEN [st EXCEPT !.status = "exit"]
        ELSE [status |-> "ok",
              url    |-> Some(sp.base_url),
              paths  |-> IF Truthy(sp.path)
                         THEN Append(st.paths, sp.path[1])
                         ELSE st.paths]

RECURSIVE read_url_loop(_, _)
read_url_loop(st, urls) ==
    IF urls = <<>> THEN st
    ELSE read_url_loop(read_url_step(st, Head(urls)), Tail(urls))

\* _read_raw_git_urls on a record whose URL_PATTERN matches are urls:
\* status, self._url (git_url) and self._paths (git_paths).
read_raw_git_urls(urls) ==
    read_url_loop([status |-> "ok", url |-> None, paths |-> <<>>], urls)

----------------------------------------------------------------------------
(* must_ignore: pathlib.PurePath.match against IGNORE_PATTERNS.            *)
(* A file name is a sequence of symbols, a path a sequence of file names,  *)
(* a pattern a sequence of name patterns in which "*" is the wildcard.     *)

RECURSIVE fnmatchcase(_, _)
\* fnmatch.fnmatchcase(name, pat) for patterns of literals and "*"
fnmatchcase(name, pat) ==
    IF pat = <<>> THEN name = <<>>
    ELSE IF Head(pat) = "*"
         THEN \/ fnmatchcase(name, Tail(pat))
              \/ name # <<>> /\ fnmatchcase(Tail(name), pat)
    ELSE /\ name # <<>>
         /\ Head(name) = Head(pat)
         /\ fnmatchcase(Tail(name), Tail(pat))

\* PurePath.match(pattern) for a relative pattern: the pattern's components
\* are matched against the path's last components, one name pattern each
\* ("**" is matched by fnmatch like any other component, as "*").
path_match(path, pattern) ==
    /\ Len(pattern) <= Len(path)
    /\ \A i \in 1..Len(pattern) :
           fnmatchcase(path[Len(path) - Len(pattern) + i], pattern[i])

IGNORE_PATTERNS ==
    << << <<"METADATA">> >>,
       << <<"MODULE_LICENSE_", "*">> >>,
       << <<"*", "*">>, <<"OWNERS">> >>,
       << <<"*", "*">>, <<"Android.bp">> >> >>

must_ignore(path) ==
    \E i \in 1..Len(IGNORE_PATTERNS) : path_match(path, IGNORE_PATTERNS[i])

----------------------------------------------------------------------------
(* The removal step and the copy step of main. *)

Range(seq) == {seq[i] : i \in 1..Len(seq)}

\* files_to_remove = set(import_old_files).difference(import_new_files)
files_to_remove(old, new) == Range(old) \ Range(new)

\* unlink_targets with the difference forgotten: every old file is removed
unlink_targets_all_old(old, new) == {path \in Range(old) : ~must_ignore(path)}

\* the paths of the removal loop that reach old.unlink(missing_ok=True)
unlink_targets(old, new) == {path \in files_to_remove(old, new) : ~must_ignore(path)}

\* the vendored directory after the removal loop
removal_loop(dir, old, new) ==
    [path \in DOMAIN dir |->
        IF path \in unlink_targets(old, new) THEN "absent" ELSE dir[path]]

\* the paths among the first k of import_new_files that reach shutil.copy
copy_targets(new, k) == {new[i] : i \in {j \in 1..k : ~must_ignore(new[j])}}

\* the vendored directory after the first k iterations of the copy loop,
\* every copied file holding what the new clone holds for it
copy_loop(dir, new, k, holds) ==
    [path \in DOMAIN dir |->
        IF path \in copy_targets(new, k) THEN holds ELSE dir[path]]

----------------------------------------------------------------------------
(* AndroidMetadata.current_version and update_version_and_import_date.     *)

\* 'version: "', the literal both version patterns start with
VERSION_KEY == "version: \""

QUOTE == "\""

\* 'last_upgrade_date {', the literal the date pattern starts with
DATE_KEY == "last_upgrade_date {"

RBRACE == "}"

\* the symbols that end in the character " and hold no other "
EndsInQuote == {QUOTE, VERSION_KEY}

\* what [^"]* takes of a VERSION_KEY symbol before its closing "
KeyWithoutQuote == "version: "

\* the position of the symbol that closes a match starting at text[1]:
\* the first symbol after it that holds a closing character, 0 if none
CloserPos(text, closers) ==
    LET hits == {j \in 2..Len(text) : text[j] \in closers}
    IN  IF hits = {} THEN 0 ELSE CHOOSE j \in hits : \A k \in hits : j <= k

RECURSIVE re_sub(_, _, _, _)
\* re.sub(key + '[^c]*c', repl, text) for a literal key and a closing
\* character c held by the symbols closers: every non-overlapping match,
\* left to right, is replaced by repl
re_sub(key, closers, repl, text) ==
    IF text = <<>> THEN <<>>
    ELSE IF Head(text) = key /\ CloserPos(text, closers) # 0
         THEN repl \o re_sub(key, closers, repl, DropTo(text, CloserPos(text, closers) + 1))
    ELSE <<Head(text)>> \o re_sub(key, closers, repl, Tail(text))

\* the text [^"]* matched: the symbols between the key and the closer, and
\* the closer's own characters before its "
MatchedGroup(text, j) ==
    SubSeq(text, 2, j - 1) \o (IF text[j] = VERSION_KEY THEN <<KeyWithoutQuote>> ELSE <<>>)

RECURSIVE current_version(_)
\* re.search(r'version: "([^"]*)"', content): group(1) of the first match,
\* None (the run exits) when there is no match
current_version(content) ==
    IF content = <<>> THEN None
    ELSE IF Head(content) = VERSION_KEY /\ CloserPos(content, EndsInQuote) # 0
         THEN Some(MatchedGroup(content, CloserPos(content, EndsInQuote)))
    ELSE current_version(Tail(content))

\* f'last_upgrade_date {{ year: {now.year} month: {now.month} day: {now.day} }}',
\* now standing for the text "year: Y month: M day: D" of a date
DateText(now) == <<DATE_KEY, " ", now, " ", RBRACE>>

\* the content update_version_and_import_date writes back to the file
\* (version holds no backslash, which re.sub would expand in a replacement)
update_version_and_import_date(content, version, now) ==
    re_sub(DATE_KEY, {RBRACE}, DateText(now),
           re_sub(VERSION_KEY, EndsInQuote, <<VERSION_KEY>> \o version \o <<QUOTE>>, content))

----------------------------------------------------------------------------
(* GitRepo, and the upstream repository it clones.                         *)

\* upstream commits, by their hash
Commits == {"c1", "c2"}

\* the upstream tags, which never move
TagCommit == [t \in {<<"v1">>, <<"v2">>} |-> IF t = <<"v1">> THEN "c1" ELSE "c2"]

MAIN == <<"main">>

HEAD == <<"HEAD">>

\* the record file of the vendored directory
METADATA_PATH == << <<"METADATA">> >>

\* git ls-tree -r --name-only of each upstream commit
Tree(commit) ==
    IF commit = "c1"
    THEN << << <<"a.xml">> >>,
            << <<"p">>, <<"Android.bp">> >>,
            << <<"p">>, <<"b.xml">> >> >>
    ELSE << METADATA_PATH,
            << <<"MODULE_LICENSE_", "MIT">> >>,
            << <<"p">>, <<"Android.bp">> >>,
            << <<"p">>, <<"c.xml">> >> >>

\* the text of the METADATA file upstream commit c2 carries
UpstreamRecord == <<VERSION_KEY, "upstream", QUOTE>>

\* the version strings a run may be given or may find recorded
VersionNames == DOMAIN TagCommit \cup {MAIN, HEAD} \cup {<<c>> : c \in Commits}

\* the commit a branch or tag name (or HEAD) resolves to upstream; None for
\* any other string, a commit hash included: git clone -b takes no hash
RefCommit(version, main_tip) ==
    IF version \in DOMAIN TagCommit THEN Some(TagCommit[version])
    ELSE IF version \in {MAIN, HEAD} THEN Some(main_tip)
    ELSE None

\* dirs is a prefix of the components of file
IsUnder(file, dirs) ==
    Len(dirs) <= Len(file) /\ SubSeq(file, 1, Len(dirs)) = dirs

\* GitRepo.get_files: git ls-tree -r --name-only <tree> <paths>, the whole
\* tree when paths is empty
get_files(tree, paths) ==
    SelectSeq(tree, LAMBDA file :
        paths = <<>> \/ \E i \in 1..Len(paths) : IsUnder(file, StrSplit(paths[i], SLASH)))

\* assert_no_uncommitted_changes without its second check, of the index
assert_modified_only(t) == IF t.modified THEN "dirty" ELSE "ok"

\* GitRepo.assert_no_uncommitted_changes: "ok", or the check that exits
assert_no_uncommitted_changes(t) ==
    IF t.modified THEN "dirty"
    ELSE IF t.staged THEN "staged"
    ELSE "ok"

\* GitRepo.git_ref_name_for_version on the lines git describe printed:
\* splitlines()[0] raises IndexError when it printed none
git_ref_name_for_version(stdout) ==
    IF stdout = <<>> THEN [raised |-> TRUE, name |-> None]
    ELSE LET ref == stdout[1]
         IN  IF ref # <<>> /\ Head(ref) = "tags/"
             THEN [raised |-> FALSE, name |-> Some(Tail(ref))]
             ELSE IF ref # <<>> /\ Head(ref) = "heads/"
             THEN [raised |-> FALSE, name |-> Some(Tail(ref))]
             ELSE [raised |-> FALSE, name |-> None]

\* what git describe --all --exact-match may print in a clone of version at
\* commit: nothing (the command fails, check=False), a tag at the commit,
\* the branch, or the remote-tracking ref
DescribeStdout(version, commit) ==
    {<<>>}
    \cup {<< <<"tags/">> \o t >> : t \in {u \in DOMAIN TagCommit : TagCommit[u] = commit}}
    \cup (IF version \in {MAIN, HEAD}
          THEN {<< <<"heads/">> \o MAIN >>, << <<"remotes/", "origin/">> \o MAIN >>}
          ELSE {})

\* GitRepo.sparse_depth1_clone: whether git clone runs (after the rmtree of
\* a forced clean, or when nothing is checked out at the base path yet)
clone_runs(checked_out, force) == force \/ checked_out = None

\* import_new_ref_name or import_new_hash
version_to_record(name, hash) == IF Truthy(name) THEN name[1] ELSE <<hash>>

\* copy_next with the exception of a failed iteration swallowed
copy_next_swallowed(k, n) == "update_meta"

\* where main goes after k of n iterations of the copy loop: on to the
\* record update when all are done, out with the exception otherwise
copy_next(k, n) == IF k = n THEN "update_meta" ELSE "failed"

\* git_commit_ok with --allow-empty left out
git_commit_nonempty(allow_empty, has_changes) == has_changes

\* GitRepo.commit: git commit [--allow-empty] -a succeeds when there is a
\* change to commit or an empty commit is allowed
git_commit_ok(allow_empty, has_changes) == allow_empty \/ has_changes

----------------------------------------------------------------------------
(* Each specification below runs one part of the program and leaves the    *)
(* variables of the other parts idle.                                      *)

UrlIdle ==
    /\ u_urls = <<>>
    /\ u_res = [status |-> "ok", url |-> None, paths |-> <<>>]
    /\ u_pc = "idle"

ApplyIdle ==
    /\ a_old = <<>>
    /\ a_new = <<>>
    /\ a_dir0 = <<>>
    /\ a_dir = <<>>
    /\ a_dir1 = <<>>
    /\ a_unlinked = {}
    /\ a_head = <<>>
    /\ a_commits = 0
    /\ a_pc = "idle"

MetaIdle ==
    /\ m_rec = <<>>
    /\ m_version = <<>>
    /\ m_content = <<>>
    /\ m_pc = "idle"

RunIdle ==
    /\ pc = "idle"
    /\ local_tree = [modified |-> FALSE, staged |-> FALSE]
    /\ arg_version = HEAD
    /\ remove_old_files = TRUE
    /\ force_clean = TRUE
    /\ record_urls = <<>>
    /\ record_text = <<>>
    /\ meta = [url |-> None, paths |-> <<>>]
    /\ upstream_main = "c1"
    /\ scratch = <<>>
    /\ import_new = <<>>
    /\ import_old = <<>>
    /\ target_dir = <<>>
    /\ staged = {}
    /\ commits = <<>>
    /\ run = <<>>

----------------------------------------------------------------------------
(* SpecMeta: update_version_and_import_date applied to records written     *)
(* from a few fields of the METADATA format.                               *)

\* the version strings of SpecMeta
MetaVersions == {<<"1">>, <<"2">>}

\* the day of the run, and a date a record may already hold
Today == "today"

Dates == {"earlier", Today}

\* what a record is written from: a version field, the closest_version
\* field of an identifier block, a date block (spaced as the tool writes it
\* or not at all), some other field, a blank
Items ==
    [kind : {"version", "closest_version"}, value : MetaVersions]
    \cup [kind : {"date", "date_unspaced"}, value : Dates]
    \cup [kind : {"name", "blank"}, value : {<<>>}]

RenderItem(item) ==
    CASE item.kind = "version" -> <<VERSION_KEY>> \o item.value \o <<QUOTE>>
      [] item.kind = "closest_version" -> <<"closest_", VERSION_KEY>> \o item.value \o <<QUOTE>>
      [] item.kind = "date" -> <<DATE_KEY, " ", item.value, " ", RBRACE>>
      [] item.kind = "date_unspaced" -> <<DATE_KEY, item.value, RBRACE>>
      [] item.kind = "name" -> <<"name: ", QUOTE, "x", QUOTE>>
      [] item.kind = "blank" -> <<" ">>

RECURSIVE Render(_)
Render(rec) == IF rec = <<>> THEN <<>> ELSE RenderItem(Head(rec)) \o Render(Tail(rec))

RECURSIVE ItemSeqs(_)
ItemSeqs(n) ==
    IF n = 0 THEN {<<>>}
    ELSE LET shorter == ItemSeqs(n - 1)
         IN  shorter \cup {Append(r, item) : r \in {t \in shorter : Len(t) = n - 1},
                                              item \in Items}

\* a record holds at most one version field
Records ==
    {rec \in ItemSeqs(MaxItems) :
        Cardinality({i \in 1..Len(rec) : rec[i].kind = "version"}) <= 1}

MetaInit ==
    /\ RunIdle
    /\ UrlIdle
    /\ ApplyIdle
    /\ m_rec \in Records
    /\ m_version \in MetaVersions
    /\ m_content = Render(m_rec)
    /\ m_pc = "init"

MetaUpdate ==
    /\ m_pc = "init"
    /\ m_content' = update_version_and_import_date(m_content, m_version, Today)
    /\ m_pc' = "updated"
    /\ UNCHANGED <<m_rec, m_version, uvars, avars, rvars>>

MetaNext == MetaUpdate

SpecMeta == MetaInit /\ [][MetaNext]_vars

----------------------------------------------------------------------------
(* SpecApply: the two steps applied, twice over, to every vendored         *)
(* directory and every pair of snapshots over a small set of paths.        *)

\* the paths of SpecApply, in the order git ls-tree lists them
ApplyPaths ==
    << << <<"METADATA">> >>,
       << <<"OWNERS">> >>,
       << <<"a.xml">> >>,
       << <<"p">>, <<"OWNERS">> >>,
       << <<"p">>, <<"b.xml">> >> >>

\* the members of S in the order of paths
ListOf(paths, S) == SelectSeq(paths, LAMBDA path : path \in S)

ApplyInit ==
    /\ RunIdle
    /\ UrlIdle
    /\ MetaIdle
    /\ a_old \in {ListOf(ApplyPaths, S) : S \in SUBSET Range(ApplyPaths)}
    /\ a_new \in {ListOf(ApplyPaths, S) : S \in SUBSET Range(ApplyPaths)}
    /\ a_dir0 \in [Range(ApplyPaths) -> {"absent", "local"}]
    /\ a_dir = a_dir0
    /\ a_dir1 = a_dir0
    /\ a_unlinked = {}
    /\ a_head = a_dir0
    /\ a_commits = 0
    /\ a_pc = "init"

\* the removal loop of main
ApplyRemove ==
    /\ a_pc \in {"init", "committed"}
    /\ a_dir' = removal_loop(a_dir, a_old, a_new)
    /\ a_unlinked' = unlink_targets(a_old, a_new)
    /\ a_pc' = IF a_pc = "init" THEN "removed" ELSE "removed2"
    /\ UNCHANGED <<a_old, a_new, a_dir0, a_dir1, a_head, a_commits, uvars, mvars, rvars>>

\* the copy loop of main
ApplyCopy ==
    /\ a_pc \in {"removed", "removed2"}
    /\ a_dir' = copy_loop(a_dir, a_new, Len(a_new), "new")
    /\ a_dir1' = IF a_pc = "removed" THEN a_dir' ELSE a_dir1
    /\ a_pc' = IF a_pc = "removed" THEN "copied" ELSE "copied2"
    /\ UNCHANGED <<a_old, a_new, a_dir0, a_unlinked, a_head, a_commits, uvars, mvars, rvars>>

\* target_git.commit(message, allow_empty=True)
ApplyCommit ==
    /\ a_pc \in {"copied", "copied2"}
    /\ IF git_commit_ok(TRUE, a_dir # a_head)
       THEN /\ a_head' = a_dir
            /\ a_commits' = a_commits + 1
            /\ a_pc' = IF a_pc = "copied" THEN "committed" ELSE "committed2"
       ELSE /\ a_pc' = "failed"
            /\ UNCHANGED <<a_head, a_commits>>
    /\ UNCHANGED <<a_old, a_new, a_dir0, a_dir, a_dir1, a_unlinked, uvars, mvars, rvars>>

ApplyNext == ApplyRemove \/ ApplyCopy \/ ApplyCommit

SpecApply == ApplyInit /\ [][ApplyNext]_vars

----------------------------------------------------------------------------
(* SpecUrl: _read_raw_git_urls applied to bounded records. *)

\* the pieces URLs are built from: a host/repository word, a directory or
\* ref word, a slash and the two delimiters
UrlPieces == {<<"h">>, <<"p">>, SLASH, PLUS_DELIM, TREE_DELIM}

RECURSIVE PieceSeqs(_)
PieceSeqs(n) ==
    IF n = 0 THEN {<<>>}
    ELSE LET shorter == PieceSeqs(n - 1)
         IN  shorter \cup {Append(s, p) : s \in {t \in shorter : Len(t) = n - 1},
                                           p \in UrlPieces}

Urls == {Concat(s) : s \in PieceSeqs(MaxPieces)}

\* a second entry of a record with two entries
SecondUrls == {<<"h">>, <<"h", "/", "+", "/", "p", "/", "p">>, <<"p">>}

UrlInit ==
    /\ RunIdle
    /\ ApplyIdle
    /\ MetaIdle
    /\ u_urls \in {<<u>> : u \in Urls} \cup {<<u, w>> : u \in Urls, w \in SecondUrls}
    /\ u_res = [status |-> "ok", url |-> None, paths |-> <<>>]
    /\ u_pc = "init"

UrlRead ==
    /\ u_pc = "init"
    /\ u_res' = read_raw_git_urls(u_urls)
    /\ u_pc' = "read"
    /\ UNCHANGED <<u_urls, avars, mvars, rvars>>

UrlNext == UrlRead

SpecUrl == UrlInit /\ [][UrlNext]_vars

----------------------------------------------------------------------------
(* Spec: runs of main, one after the other, against an upstream whose      *)
(* branch may move.  Every git command that main runs with check=True may  *)
(* fail; a failure ends the run.                                           *)

\* the versions a run is asked to import
ArgVersions == {<<"v2">>, MAIN, HEAD}

\* the URL entries of the METADATA file: the whole repository, a subpath of
\* it, two repositories, an empty entry before a repository, no entry
RecordUrls ==
    { << <<"h">> >>,
      << <<"h", "/", "+", "/", "r", "/", "p">> >>,
      << <<"h">>, <<"g">> >>,
      << <<>>, <<"g">> >>,
      <<>> }

DateBlock == <<" ", DATE_KEY, " ", "earlier", " ", RBRACE>>

\* the rest of the METADATA file: the version the last import recorded (the
\* tag v1, the branch main or the hash, all of them commit c1 then) and its
\* date, or no version field at all
RecordTexts ==
    {<<VERSION_KEY>> \o v \o <<QUOTE>> \o DateBlock : v \in {<<"v1">>, MAIN, <<"c1">>}}
    \cup {DateBlock}

\* the paths of the vendored directory, the record file apart
DirPaths ==
    (Range(Tree("c1")) \cup Range(Tree("c2"))) \ {METADATA_PATH}

\* files the local tree keeps next to the imported ones
LocalFiles == {<< <<"MODULE_LICENSE_", "MIT">> >>, << <<"p">>, <<"Android.bp">> >>}

\* the subpaths the record declares, when its URL entries can be read
DeclaredPaths(entries) ==
    IF read_raw_git_urls(entries).status = "ok" THEN read_raw_git_urls(entries).paths ELSE <<>>

\* the vendored directory as an import of commit c1 left it: the files of
\* c1 that are not ignored, and the local files
ImportedDir(entries) ==
    [path \in DirPaths |->
        IF path \in Range(get_files(Tree("c1"), DeclaredPaths(entries))) /\ ~must_ignore(path)
        THEN "c1"
        ELSE IF path \in LocalFiles THEN "local" ELSE "absent"]

NoImport == [hash |-> None, ref_name |-> None, files |-> <<>>]

NoOldImport == [version |-> None, hash |-> None, files |-> <<>>]

StartOfRun(n, d, text, made) ==
    [n |-> n, dir0 |-> d, text0 |-> text, commits0 |-> Len(made),
     clones |-> 0, writes |-> 0, failed_at |-> "none"]

Init ==
    /\ UrlIdle
    /\ ApplyIdle
    /\ MetaIdle
    /\ pc = "assert_clean"
    /\ local_tree \in [modified : BOOLEAN, staged : BOOLEAN]
    /\ arg_version \in ArgVersions
    /\ remove_old_files \in BOOLEAN
    /\ force_clean \in BOOLEAN
    /\ record_urls \in RecordUrls
    /\ record_text \in RecordTexts
    /\ meta = [url |-> None, paths |-> <<>>]
    /\ upstream_main = "c1"
    /\ scratch = [v \in VersionNames |-> None]
    /\ import_new = NoImport
    /\ import_old = NoOldImport
    /\ target_dir = ImportedDir(record_urls)
    /\ staged = {}
    /\ commits = <<>>
    /\ run = StartOfRun(1, target_dir, record_text, commits)

\* the run ends at step
Fail(step) ==
    /\ pc' = "failed"
    /\ run' = [run EXCEPT !.failed_at = step]

\* line 345
AssertClean ==
    /\ pc = "assert_clean"
    /\ IF assert_no_uncommitted_changes(local_tree) = "ok"
       THEN pc' = "read_urls" /\ UNCHANGED run
       ELSE Fail("assert_clean")
    /\ UNCHANGED <<local_tree, arg_version, remove_old_files, force_clean, record_urls,
                   record_text, meta, upstream_main, scratch, import_new, import_old,
                   target_dir, staged, commits, uvars, avars, mvars>>

\* lines 348-350: the first use of meta.git_url reads the URL entries
ReadUrls ==
    /\ pc = "read_urls"
    /\ LET res == read_raw_git_urls(record_urls)
       IN  IF res.status = "ok"
           THEN /\ meta' = [url |-> res.url, paths |-> res.paths]
                /\ pc' = "clone_new"
                /\ UNCHANGED run
           ELSE /\ Fail("read_urls")
                /\ UNCHANGED meta
    /\ UNCHANGED <<local_tree, arg_version, remove_old_files, force_clean, record_urls,
                   record_text, upstream_main, scratch, import_new, import_old,
                   target_dir, staged, commits, uvars, avars, mvars>>

\* sparse_depth1_clone(meta.git_url, version, meta.git_paths, force_clean)
\* into .import/<group>/<version>: git clone runs unless a checkout is
\* reused, and succeeds only for a repository and a branch, tag or HEAD
Clone(version, step, next) ==
    IF ~clone_runs(scratch[version], force_clean)
    THEN /\ pc' = next
         /\ UNCHANGED <<scratch, run>>
    ELSE \/ /\ Truthy(meta.url)
            /\ RefCommit(version, upstream_main) # None
            /\ scratch' = [scratch EXCEPT ![version] = RefCommit(version, upstream_main)]
            /\ pc' = next
            /\ run' = [run EXCEPT !.clones = @ + 1]
         \/ /\ scratch' = [scratch EXCEPT ![version] = None]
            /\ pc' = "failed"
            /\ run' = [run EXCEPT !.clones = @ + 1, !.failed_at = step]

\* lines 351-355
CloneNew ==
    /\ pc = "clone_new"
    /\ Clone(arg_version, "clone_new", "hash_new")
    /\ UNCHANGED <<local_tree, arg_version, remove_old_files, force_clean, record_urls,
                   record_text, meta, upstream_main, import_new, import_old,
                   target_dir, staged, commits, uvars, avars, mvars>>

\* line 356: get_hash_for_version in the new clone
HashNew ==
    /\ pc = "hash_new"
    /\ \/ /\ import_new' = [import_new EXCEPT !.hash = scratch[arg_version]]
          /\ pc' = "ref_new"
          /\ UNCHANGED run
       \/ /\ Fail("hash_new")
          /\ UNCHANGED import_new
    /\ UNCHANGED <<local_tree, arg_version, remove_old_files, force_clean, record_urls,
                   record_text, meta, upstream_main, scratch, import_old,
                   target_dir, staged, commits, uvars, avars, mvars>>

\* line 357: git_ref_name_for_version in the new clone
RefNew ==
    /\ pc = "ref_new"
    /\ \E stdout \in DescribeStdout(arg_version, import_new.hash[1]) :
           LET r == git_ref_name_for_version(stdout)
           IN  IF r.raised
               THEN /\ Fail("ref_new")
                    /\ UNCHANGED import_new
               ELSE /\ import_new' = [import_new EXCEPT !.ref_name = r.name]
                    /\ pc' = "files_new"
                    /\ UNCHANGED run
    /\ UNCHANGED <<local_tree, arg_version, remove_old_files, force_clean, record_urls,
                   record_text, meta, upstream_main, scratch, import_old,
                   target_dir, staged, commits, uvars, avars, mvars>>

\* lines 359-361: get_files in the new clone, then the test of remove_old_files
FilesNew ==
    /\ pc = "files_new"
    /\ \/ /\ import_new' =
                [import_new EXCEPT !.files = get_files(Tree(import_new.hash[1]), meta.paths)]
          /\ pc' = IF remove_old_files THEN "current_version" ELSE "copy"
          /\ UNCHANGED run
       \/ /\ Fail("files_new")
          /\ UNCHANGED import_new
    /\ UNCHANGED <<local_tree, arg_version, remove_old_files, force_clean, record_urls,
                   record_text, meta, upstream_main, scratch, import_old,
                   target_dir, staged, commits, uvars, avars, mvars>>

\* line 363: the first use of meta.current_version
CurrentVersion ==
    /\ pc = "current_version"
    /\ LET v == current_version(record_text)
       IN  IF v = None
           THEN /\ Fail("current_version")
                /\ UNCHANGED import_old
           ELSE /\ import_old' = [import_old EXCEPT !.version = v]
                /\ pc' = "clone_old"
                /\ UNCHANGED run
    /\ UNCHANGED <<local_tree, arg_version, remove_old_files, force_clean, record_urls,
                   record_text, meta, upstream_main, scratch, import_new,
                   target_dir, staged, commits, uvars, avars, mvars>>

\* lines 365-370
CloneOld ==
    /\ pc = "clone_old"
    /\ Clone(import_old.version[1], "clone_old", "hash_old")
    /\ UNCHANGED <<local_tree, arg_version, remove_old_files, force_clean, record_urls,
                   record_text, meta, upstream_main, import_new, import_old,
                   target_dir, staged, commits, uvars, avars, mvars>>

\* lines 371-372: get_hash_for_version in the old clone
HashOld ==
    /\ pc = "hash_old"
    /\ \/ /\ import_old' = [import_old EXCEPT !.hash = scratch[import_old.version[1]]]
          /\ pc' = "files_old"
          /\ UNCHANGED run
       \/ /\ Fail("hash_old")
          /\ UNCHANGED import_old
    /\ UNCHANGED <<local_tree, arg_version, remove_old_files, force_clean, record_urls,
                   record_text, meta, upstream_main, scratch, import_new,
                   target_dir, staged, commits, uvars, avars, mvars>>

\* lines 374-375: get_files in the old clone
FilesOld ==
    /\ pc = "files_old"
    /\ \/ /\ import_old' =
                [import_old EXCEPT !.files = get_files(Tree(import_old.hash[1]), meta.paths)]
          /\ pc' = "remove"
          /\ UNCHANGED run
       \/ /\ Fail("files_old")
          /\ UNCHANGED import_old
    /\ UNCHANGED <<local_tree, arg_version, remove_old_files, force_clean, record_urls,
                   record_text, meta, upstream_main, scratch, import_new,
                   target_dir, staged, commits, uvars, avars, mvars>>

\* lines 377-383: the removal loop; an unlink of the record file leaves no record
RemoveOld ==
    /\ pc = "remove"
    /\ target_dir' = removal_loop(target_dir, import_old.files, import_new.files)
    /\ IF METADATA_PATH \in unlink_targets(import_old.files, import_new.files)
       THEN /\ record_text' = <<>>
            /\ run' = [run EXCEPT !.writes = @ + 1]
       ELSE UNCHANGED <<record_text, run>>
    /\ pc' = "copy"
    /\ UNCHANGED <<local_tree, arg_version, remove_old_files, force_clean, record_urls,
                   meta, upstream_main, scratch, import_new, import_old,
                   staged, commits, uvars, avars, mvars>>

\* iteration i of the copy loop has its source file in the new clone
HasSource(i) ==
    import_new.files[i] \in Range(Tree(scratch[arg_version][1]))

\* lines 385-393: the copy loop.  k iterations complete; the next one, if
\* any, fails in shutil.copy or in git add (an ignored path cannot fail).
\* A copy onto the record file replaces the record.
CopyNew ==
    /\ pc = "copy"
    /\ \E k \in 0..Len(import_new.files) :
        /\ \A i \in 1..k : must_ignore(import_new.files[i]) \/ HasSource(i)
        /\ k < Len(import_new.files) => ~must_ignore(import_new.files[k + 1])
        /\ target_dir' = copy_loop(target_dir, import_new.files, k, scratch[arg_version][1])
        /\ staged' = staged \cup copy_targets(import_new.files, k)
        /\ record_text' = IF METADATA_PATH \in copy_targets(import_new.files, k)
                          THEN UpstreamRecord ELSE record_text
        /\ run' = [run EXCEPT
                     !.writes = IF METADATA_PATH \in copy_targets(import_new.files, k)
                                THEN @ + 1 ELSE @,
                     !.failed_at = IF k < Len(import_new.files) THEN "copy" ELSE @]
        /\ pc' = copy_next(k, Len(import_new.files))
    /\ UNCHANGED <<local_tree, arg_version, remove_old_files, force_clean, record_urls,
                   meta, upstream_main, scratch, import_new, import_old,
                   commits, uvars, avars, mvars>>

\* line 395
UpdateMeta ==
    /\ pc = "update_meta"
    /\ record_text' = update_version_and_import_date(
                          record_text,
                          version_to_record(import_new.ref_name, import_new.hash[1]),
                          Today)
    /\ run' = [run EXCEPT !.writes = @ + 1]
    /\ pc' = "add_meta"
    /\ UNCHANGED <<local_tree, arg_version, remove_old_files, force_clean, record_urls,
                   meta, upstream_main, scratch, import_new, import_old,
                   target_dir, staged, commits, uvars, avars, mvars>>

\* line 396
AddMeta ==
    /\ pc = "add_meta"
    /\ \/ /\ staged' = staged \cup {METADATA_PATH}
          /\ pc' = "commit"
          /\ UNCHANGED run
       \/ /\ Fail("add_meta")
          /\ UNCHANGED staged
    /\ UNCHANGED <<local_tree, arg_version, remove_old_files, force_clean, record_urls,
                   record_text, meta, upstream_main, scratch, import_new, import_old,
                   target_dir, commits, uvars, avars, mvars>>

\* lines 398-405: the commit names the version recorded and the hash
Commit ==
    /\ pc = "commit"
    /\ IF git_commit_ok(TRUE, target_dir # run.dir0 \/ record_text # run.text0)
       THEN /\ commits' = Append(commits,
                   [version |-> version_to_record(import_new.ref_name, import_new.hash[1]),
                    hash |-> import_new.hash[1],
                    empty |-> target_dir = run.dir0 /\ record_text = run.text0])
            /\ pc' = "done"
            /\ UNCHANGED run
       ELSE /\ Fail("commit")
            /\ UNCHANGED commits
    /\ UNCHANGED <<local_tree, arg_version, remove_old_files, force_clean, record_urls,
                   record_text, meta, upstream_main, scratch, import_new, import_old,
                   target_dir, staged, uvars, avars, mvars>>

\* the maintainer runs the script again, with the same options, on the tree
\* the last run committed
NewRun ==
    /\ pc = "done"
    /\ run.n < MaxRuns
    /\ arg_version' \in ArgVersions
    /\ local_tree' = [modified |-> FALSE, staged |-> FALSE]
    /\ meta' = [url |-> None, paths |-> <<>>]
    /\ import_new' = NoImport
    /\ import_old' = NoOldImport
    /\ staged' = {}
    /\ run' = StartOfRun(run.n + 1, target_dir, record_text, commits)
    /\ pc' = "assert_clean"
    /\ UNCHANGED <<remove_old_files, force_clean, record_urls, record_text, upstream_main,
                   scratch, target_dir, commits, uvars, avars, mvars>>

\* upstream moves its branch main from commit c1 to commit c2
UpstreamPush ==
    /\ pc \notin {"failed", "idle"}
    /\ upstream_main = "c1"
    /\ upstream_main' = "c2"
    /\ UNCHANGED <<pc, local_tree, arg_version, remove_old_files, force_clean, record_urls,
                   record_text, meta, scratch, import_new, import_old, target_dir,
                   staged, commits, run, uvars, avars, mvars>>

Next ==
    \/ AssertClean
    \/ ReadUrls
    \/ CloneNew
    \/ HashNew
    \/ RefNew
    \/ FilesNew
    \/ CurrentVersion
    \/ CloneOld
    \/ HashOld
    \/ FilesOld
    \/ RemoveOld
    \/ CopyNew
    \/ UpdateMeta
    \/ AddMeta
    \/ Commit
    \/ NewRun
    \/ UpstreamPush

Spec == Init /\ [][Next]_vars

----------------------------------------------------------------------------
(* C5: what a URL entry means, read off the two delimiter conventions. *)

\* delim stands at position k of url and is followed by <ref>/<path>, both
\* non-empty, <ref> being the text up to the next slash
FormAt(url, delim, k) ==
    /\ OccursAt(url, delim, k)
    /\ LET rest == DropTo(url, k + Len(delim))
           j    == StrFind(rest, SLASH)
       IN  j > 1 /\ j < Len(rest)

\* the places of url that read as <base>/-/tree/<ref>/<path> or <base>/+/<ref>/<path>
SuffixForms(url) ==
    {f \in {TREE_DELIM, PLUS_DELIM} \X (1..Len(url)) : FormAt(url, f[1], f[2])}

\* url reads as a base URL with a subpath suffix in exactly one way
HasOneSuffix(url) == Cardinality(SuffixForms(url)) = 1

\* a base URL: not empty, no slash at either end
IsBase(base) == base # <<>> /\ Head(base) # "/" /\ base[Len(base)] # "/"

\* a relative path of non-empty components
IsRelPath(path) ==
    LET parts == StrSplit(path, SLASH)
    IN  \A i \in 1..Len(parts) : parts[i] # <<>>

TheSuffix(url) == CHOOSE f \in SuffixForms(url) : TRUE

\* the part before the delimiter
BaseBeforeDelim(url) == SubSeq(url, 1, TheSuffix(url)[2] - 1)

\* everything after the ref component
PathAfterRef(url) ==
    LET f    == TheSuffix(url)
        rest == DropTo(url, f[2] + Len(f[1]))
    IN  DropTo(rest, StrFind(rest, SLASH) + 1)

NoDelimiter(url) == ~StrContains(url, TREE_DELIM) /\ ~StrContains(url, PLUS_DELIM)

\* C5: for every URL entry of a record, a URL that contains a delimiter
\* followed by <ref>/<path> yields the part before the delimiter as git_url
\* and <path> as a member of git_paths; a URL with neither delimiter is
\* git_url as a whole and adds no path.  Stated for records of one entry,
\* where no other entry can end the run, and for URLs that read as
\* <base><delimiter><ref>/<path> in exactly one way, with a non-empty base
\* and a <path> of non-empty components.
C5_SuffixSplit ==
    (u_pc = "read" /\ Len(u_urls) = 1) =>
        LET url == u_urls[1]
        IN  /\ (/\ HasOneSuffix(url)
                /\ IsBase(BaseBeforeDelim(url))
                /\ IsRelPath(PathAfterRef(url))) =>
                /\ u_res.status = "ok"
                /\ u_res.url = Some(BaseBeforeDelim(url))
                /\ u_res.paths = <<PathAfterRef(url)>>
            /\ NoDelimiter(url) =>
                /\ u_res.status = "ok"
                /\ u_res.url = Some(url)
                /\ u_res.paths = <<>>

----------------------------------------------------------------------------
(* C1, C2, C8: the removal step and the copy step. *)

\* the paths of the vendored directory that held a file before the run and
\* hold none now
DeletedPaths == {path \in DOMAIN a_dir : a_dir0[path] # "absent" /\ a_dir[path] = "absent"}

\* (old minus new) minus every path that matches a protected pattern
ExpectedRemovals ==
    (Range(a_old) \ Range(a_new)) \ {path \in Range(ApplyPaths) : must_ignore(path)}

\* C1: the removal step unlinks exactly (old minus new) minus the protected
\* paths: every such path is passed to unlink and is absent afterwards
\* whether or not it existed, the step completes, and no other path of the
\* vendored directory is deleted by the removal step or the copy step.
C1_DeletedExactly ==
    a_pc \in {"removed", "copied"} =>
        /\ a_unlinked = ExpectedRemovals
        /\ DeletedPaths = {path \in ExpectedRemovals : a_dir0[path] # "absent"}
        /\ \A path \in ExpectedRemovals : a_dir[path] = "absent"

\* C1's case: the removal step ran with a file to delete, a file already
\* missing, and a protected file of old minus new that it skipped
C1_Witness ==
    /\ a_pc = "removed"
    /\ \E path \in ExpectedRemovals : a_dir0[path] # "absent"
    /\ \E path \in ExpectedRemovals : a_dir0[path] = "absent"
    /\ \E path \in Range(a_old) \ Range(a_new) : must_ignore(path) /\ a_dir[path] = "local"

\* the last component of a path
Basename(path) == path[Len(path)]

\* a file of local packaging/ownership metadata, at any depth
IsLocalMetadata(path) ==
    \/ Basename(path) \in {<<"METADATA">>, <<"OWNERS">>, <<"Android.bp">>}
    \/ Len(Basename(path)) >= 1 /\ Head(Basename(path)) = "MODULE_LICENSE_"

\* C2: a file of local packaging/ownership metadata, at any depth including
\* the root of the vendored directory, is never deleted and never
\* overwritten, whatever the old and the new snapshot hold.
C2_MetadataUntouched ==
    \A path \in DOMAIN a_dir :
        (IsLocalMetadata(path) /\ a_dir0[path] # "absent") => a_dir[path] = a_dir0[path]

\* C8: applying the removal step and the copy step a second time with the
\* same two snapshots leaves the vendored directory as the first application
\* left it, and the second application ends in a commit as the first did.
C8_Idempotent ==
    /\ a_pc # "failed"
    /\ a_pc \in {"copied2", "committed2"} => a_dir = a_dir1
    /\ a_pc = "committed2" => a_commits = 2 /\ a_head = a_dir1

\* C8's case: a first application that deleted a file and copied one, and a
\* second application whose commit is empty
C8_Witness ==
    /\ a_pc = "committed2"
    /\ \E path \in DOMAIN a_dir : a_dir0[path] = "local" /\ a_dir1[path] = "absent"
    /\ \E path \in DOMAIN a_dir : a_dir1[path] = "new"
    /\ a_commits = 2

----------------------------------------------------------------------------
(* C3: the record outside its version field and its date block. *)

\* the fields of rec with the version field set to version and every date
\* block set to today's date as the tool writes it
WithVersionAndDate(rec, version) ==
    [i \in 1..Len(rec) |->
        CASE rec[i].kind = "version" -> [rec[i] EXCEPT !.value = version]
          [] rec[i].kind \in {"date", "date_unspaced"} -> [kind |-> "date", value |-> Today]
          [] OTHER -> rec[i]]

\* the fields of rec with only the date blocks rewritten
WithDate(rec) ==
    [i \in 1..Len(rec) |->
        IF rec[i].kind \in {"date", "date_unspaced"}
        THEN [kind |-> "date", value |-> Today]
        ELSE rec[i]]

\* C3: update_version_and_import_date changes the version field and the
\* last_upgrade_date block of the record and no other character of it, and
\* with the version the record already holds it changes the date alone.
C3_OnlyVersionAndDate ==
    m_pc = "updated" =>
        /\ m_content = Render(WithVersionAndDate(m_rec, m_version))
        /\ current_version(Render(m_rec)) = Some(m_version) =>
               m_content = Render(WithDate(m_rec))

----------------------------------------------------------------------------
(* C4, C6, C7, C9, C10: the order of a run's effects. *)

\* two URL entries of the record have different base URLs once their
\* subpath suffixes are stripped
InconsistentUrls(entries) ==
    \E i, j \in 1..Len(entries) :
        /\ split_url(entries[i]).ok
        /\ split_url(entries[j]).ok
        /\ split_url(entries[i]).base_url # split_url(entries[j]).base_url

\* the run has started no clone and changed no file of the vendored directory
NothingTouched ==
    /\ run.clones = 0
    /\ target_dir = run.dir0
    /\ record_text = run.text0

\* C4: a record with two GIT URL entries whose base URLs differ ends the
\* run with a fatal error when its URLs are read, before a clone is
\* started and before a file of the vendored directory is changed.
C4_InconsistentUrlsFatal ==
    InconsistentUrls(record_urls) =>
        /\ pc \in {"assert_clean", "read_urls", "failed"}
        /\ pc = "failed" => run.failed_at \in {"assert_clean", "read_urls"}
        /\ NothingTouched

Dirty == local_tree.modified \/ local_tree.staged

\* C6: a run started on a tree with uncommitted modifications or staged
\* changes exits at its first step: no clone is made, no file of the
\* vendored directory is deleted or copied, the record is not rewritten,
\* nothing is staged and no commit is created.
C6_DirtyTreeFatal ==
    Dirty =>
        /\ pc \in {"assert_clean", "failed"}
        /\ pc = "failed" => run.failed_at = "assert_clean"
        /\ NothingTouched
        /\ \A v \in DOMAIN scratch : scratch[v] = None
        /\ run.writes = 0
        /\ staged = {}
        /\ commits = <<>>

\* C6's case: a run on a tree whose only changes are staged has exited
C6_Witness ==
    /\ local_tree.staged
    /\ ~local_tree.modified
    /\ pc = "failed"

\* C7: resolving the ref name of the imported revision never fails the
\* run, and the run records and commits under the tag or branch name when
\* there is one and under the commit id when there is none.
C7_RefNameNeverFails ==
    /\ run.failed_at # "ref_new"
    /\ pc = "done" =>
           /\ commits[Len(commits)].hash = import_new.hash[1]
           /\ commits[Len(commits)].version =
                  IF import_new.ref_name = None
                  THEN <<import_new.hash[1]>>
                  ELSE import_new.ref_name[1]

\* the steps of a run before the record is rewritten
EarlySteps ==
    {"assert_clean", "read_urls", "clone_new", "hash_new", "ref_new", "files_new",
     "current_version", "clone_old", "hash_old", "files_old", "copy"}

\* every deletion and every copy of the run has been done
ImportApplied ==
    /\ \A i \in 1..Len(import_new.files) :
           ~must_ignore(import_new.files[i]) =>
               /\ target_dir[import_new.files[i]] # "absent"
               /\ import_new.files[i] \in staged
    /\ remove_old_files =>
           \A path \in Range(import_old.files) \ Range(import_new.files) :
               ~must_ignore(path) => target_dir[path] = "absent"

\* the commits this run has created
CommitsOfRun == Len(commits) - run.commits0

\* C9: a run rewrites the record file at most once, only after all its
\* deletions and copies and before its one commit; a run that aborts at an
\* earlier step leaves the record as it was and creates no commit.
C9_RecordWrittenOnceAtEnd ==
    /\ run.writes <= 1
    /\ CommitsOfRun <= 1
    /\ run.writes = 0 => record_text = run.text0
    /\ run.writes = 1 =>
           /\ \/ pc \in {"add_meta", "commit", "done"}
              \/ pc = "failed" /\ run.failed_at \in {"add_meta", "commit"}
           /\ ImportApplied
    /\ CommitsOfRun = 1 => run.writes = 1 /\ pc = "done"
    /\ (pc = "failed" /\ run.failed_at \in EarlySteps) =>
           /\ record_text = run.text0
           /\ CommitsOfRun = 0

\* C9's case: a run that deleted a file and copied another has rewritten
\* the record and committed
C9_Witness ==
    /\ pc = "done"
    /\ run.writes = 1
    /\ CommitsOfRun = 1
    /\ record_text # run.text0
    /\ \E path \in DirPaths : run.dir0[path] # "absent" /\ target_dir[path] = "absent"
    /\ \E path \in DirPaths : run.dir0[path] = "absent" /\ target_dir[path] # "absent"

\* C10: after every successful run with old-file removal (and clean
\* clones), the files of the vendored directory that are not protected are
\* exactly the files of the snapshot just imported that are not protected:
\* no file of an earlier snapshot is left.
C10_NoStaleFiles ==
    (pc = "done" /\ remove_old_files /\ force_clean) =>
        \A path \in DirPaths :
            ~must_ignore(path) =>
                (target_dir[path] # "absent" <=> path \in Range(import_new.files))

====
